---- MODULE Spec2Model ----
(***************************************************************************)
(* Model of the student finance tracker front end (src/src/App.jsx,        *)
(* src/src/main.jsx): the React state of the App component, its three      *)
(* asynchronous operations (fetchTransactions, handleAddTransaction,       *)
(* handleDeleteTransaction), the requests they keep in flight and the      *)
(* remote transaction store they talk to.                                  *)
(*                                                                         *)
(* Strings are sequences of tokens: a message is the concatenation of its  *)
(* template parts and of the texts substituted into it, a description or   *)
(* an amount is a sequence of characters.  Amounts are numbers of          *)
(* hundredths.                                                             *)
(***************************************************************************)
EXTENDS Integers, Sequences, FiniteSets, TLC

VARIABLES
  description,   \* useState('')          App.jsx:6
  amount,        \* useState('')          App.jsx:7
  type,          \* useState('expense')   App.jsx:8
  transactions,  \* useState([])          App.jsx:9
  loading,       \* useState(true)        App.jsx:10
  message,       \* useState('')          App.jsx:11
  showMessage,   \* useState(false)       App.jsx:12
  mounted,       \* whether the mount effect (App.jsx:58-62) has run
  tasks,         \* the suspended async operations, each with its request
  server,        \* the remote store's list for userId
  nextId,        \* the next id the remote store assigns
  clicks,        \* the number of Add and Delete operations started so far
  edits,         \* the number of input changes made so far
  storage,       \* localStorage entry 'financeAppUserId'   App.jsx:16, 21
  userId,        \* useState(() => ...)   App.jsx:13
  now,           \* Date.now()
  inits,         \* the number of times the component was constructed
  added,         \* history: the last Add that returned after POST and List succeeded
  deleted,       \* history: ids whose Delete returned after DELETE and List succeeded
  last           \* history: what the step just taken did

vars == <<description, amount, type, transactions, loading, message, showMessage,
          mounted, tasks, server, nextId, clicks, edits, added,
          deleted, last, storage, userId, now, inits>>

idVars == <<storage, userId, now, inits>>

-----------------------------------------------------------------------------
(* Bounds of the model *)

\* user operations (accepted Add and Delete clicks) in one behaviour
MaxClicks == 2
\* input changes (onChange events) in one behaviour
MaxEdits == 2
\* entries the remote store holds for userId when the page loads
MaxStored == 0
\* the clock readings Date.now() gives in one behaviour
MaxClock == 3
\* constructions of the component (page loads) in one behaviour
MaxInits == 3

-----------------------------------------------------------------------------
(* Constants of the program and of its environment *)

UserId == "user_1"

API_BASE_URL == "http://localhost:5000/api"

\* the status of a non-2xx response
ErrorStatus == "500"

\* Bodies of a non-2xx response: no body at all, a JSON object without an
\* error text, and JSON objects {error: text}.
EmptyBody == [json |-> FALSE, error |-> <<>>]
NoBody == [json |-> FALSE, error |-> <<"-">>]
ErrorBodies ==
  { EmptyBody,
    [json |-> TRUE, error |-> <<>>],
    [json |-> TRUE, error |-> <<"db down">>],
    [json |-> TRUE, error |-> <<"Failed to fetch", " exchange rates">>] }

\* The messages of the TypeError a fetch() rejects with when the request does
\* not reach the server (Chromium; Firefox).
TransportMessages ==
  { <<"Failed to fetch">>,
    <<"NetworkError", " when attempting to fetch resource.">> }

\* Values the input fields can be given.
Descriptions == { <<>>, <<" ">>, <<" ", "r", " ">> }
Amounts == { <<>>, <<"a", "b", "c">>, <<"-", "5">>, <<"0">>, <<"2", ".", "5">> }
Types == { "expense", "income" }

-----------------------------------------------------------------------------
(* String functions *)

IsSpace(c) == c = " "

RECURSIVE TrimStart(_)
TrimStart(s) ==
  IF s # <<>> /\ IsSpace(Head(s)) THEN TrimStart(Tail(s)) ELSE s

RECURSIVE TrimEnd(_)
TrimEnd(s) ==
  IF s # <<>> /\ IsSpace(s[Len(s)]) THEN TrimEnd(SubSeq(s, 1, Len(s) - 1)) ELSE s

\* String.prototype.trim
Trim(s) == TrimEnd(TrimStart(s))

\* String.prototype.includes, at the granularity of tokens
Includes(s, tok) == \E i \in 1..Len(s) : s[i] = tok

IsDigit(c) == c \in {"0", "1", "2", "3", "4", "5", "6", "7", "8", "9"}

DigitVal(c) ==
  CASE c = "0" -> 0 [] c = "1" -> 1 [] c = "2" -> 2 [] c = "3" -> 3 [] c = "4" -> 4
    [] c = "5" -> 5 [] c = "6" -> 6 [] c = "7" -> 7 [] c = "8" -> 8 [] c = "9" -> 9

\* the length of the run of digits s starts with
RECURSIVE DigitRun(_)
DigitRun(s) ==
  IF s # <<>> /\ IsDigit(Head(s)) THEN 1 + DigitRun(Tail(s)) ELSE 0

\* the value of the decimal numeral s (digits only)
RECURSIVE Numeral(_)
Numeral(s) ==
  IF s = <<>> THEN 0 ELSE 10 * Numeral(SubSeq(s, 1, Len(s) - 1)) + DigitVal(s[Len(s)])

NaN == [nan |-> TRUE, v |-> 0]

\* parseFloat as it were if it dropped the sign
ParseFloatUnsigned(s) ==
  LET u == IF s # <<>> /\ Head(s) \in {"-", "+"} THEN Tail(s) ELSE s
      ni == DigitRun(u)
  IN IF ni = 0 THEN NaN ELSE [nan |-> FALSE, v |-> 100 * Numeral(SubSeq(u, 1, ni))]

\* parseFloat: skips leading white space, reads an optional sign and the
\* longest decimal literal the rest starts with (digits, optionally a point
\* and digits), ignores what follows, and gives NaN when there is no such
\* literal.  The value is in hundredths; fraction digits beyond the second
\* are dropped (the inputs have at most two, step="0.01").
ParseFloat(s) ==
  LET t == TrimStart(s)
      signed == t # <<>> /\ Head(t) \in {"-", "+"}
      neg == t # <<>> /\ Head(t) = "-"
      u == IF signed THEN Tail(t) ELSE t
      ni == DigitRun(u)
      rest == SubSeq(u, ni + 1, Len(u))
      dot == rest # <<>> /\ Head(rest) = "."
      frac == IF dot THEN Tail(rest) ELSE <<>>
      nf == DigitRun(frac)
      f1 == IF nf >= 1 THEN DigitVal(frac[1]) ELSE 0
      f2 == IF nf >= 2 THEN DigitVal(frac[2]) ELSE 0
      mag == 100 * Numeral(SubSeq(u, 1, ni)) + 10 * f1 + f2
  IN IF ni = 0 /\ nf = 0 THEN NaN
     ELSE [nan |-> FALSE, v |-> IF neg THEN 0 - mag ELSE mag]

-----------------------------------------------------------------------------
(* Responses *)

\* response.text(): the raw body
BodyText(b) ==
  IF ~b.json THEN <<>>
  ELSE IF b.error = <<>> THEN <<"{}">>
  ELSE <<"{\"error\":\"">> \o b.error \o <<"\"}">>

ParseErrorMessage == <<"Unexpected end of JSON input">>

\* The message of the Error fetchTransactions throws on a non-2xx response
\* (App.jsx:38-39).
ListHttpErrorMessage(b) ==
  <<"HTTP error! Status: ", ErrorStatus, ". Message: ">>
    \o (IF BodyText(b) # <<>> THEN BodyText(b) ELSE <<"No message provided.">>)

\* The message of the error handleAddTransaction and handleDeleteTransaction
\* end with on a non-2xx response (App.jsx:89-90, 122-123): response.json()
\* throws on a body that is no JSON, else errorData.error || the status text.
MutateHttpErrorMessage(b) ==
  IF ~b.json THEN ParseErrorMessage
  ELSE IF b.error # <<>> THEN b.error
  ELSE <<"HTTP error! status: ", ErrorStatus>>

\* the test of App.jsx:46, 103, 133
LooksLikeTransportError(m) ==
  Includes(m, "Failed to fetch") \/ Includes(m, "NetworkError")

CouldNotConnectList ==
  <<"Could not connect to the backend server at ", API_BASE_URL,
    ". Please ensure your backend (server.js) is running in a separate terminal.">>

CouldNotConnect ==
  <<"Could not connect to the backend server at ", API_BASE_URL,
    ". Please ensure your backend (server.js) is running.">>

\* userMessage of fetchTransactions' catch block (App.jsx:45-48)
ListUserMessage(m) ==
  IF LooksLikeTransportError(m) THEN CouldNotConnectList
  ELSE <<"Error fetching data: ">> \o m

\* userMessage of handleAddTransaction's catch block (App.jsx:102-105)
AddUserMessage(m) ==
  IF LooksLikeTransportError(m) THEN CouldNotConnect
  ELSE <<"Error adding transaction: ">> \o m

\* userMessage of handleDeleteTransaction's catch block (App.jsx:132-135)
DeleteUserMessage(m) ==
  IF LooksLikeTransportError(m) THEN CouldNotConnect
  ELSE <<"Error deleting transaction: ">> \o m

EnterBoth == <<"Please enter both description and amount.">>
EnterPositive == <<"Please enter a valid positive amount.">>
AddedOk == <<"Transaction added successfully!">>
DeletedOk == <<"Transaction deleted successfully!">>

-----------------------------------------------------------------------------
(* The remote store *)

\* an entry the store holds from an earlier session of this userId
StoredEntry(i) ==
  [id |-> i, description |-> <<"o">>, amount |-> 100 * i,
   type |-> IF i % 2 = 1 THEN "income" ELSE "expense", userId |-> UserId]

StoredList(n) == [i \in 1..n |-> StoredEntry(i)]

\* the POST as it were if its body were read from the input fields when
\* the store takes it
CreatedFromFields(list, id, post) ==
  Append(list, [id |-> id, description |-> Trim(description),
                amount |-> ParseFloat(amount).v, type |-> type, userId |-> post.userId])

\* POST /api/transactions: the store appends the entry under a fresh id
Created(list, id, post) ==
  Append(list, [id |-> id, description |-> post.description, amount |-> post.amount,
                type |-> post.type, userId |-> post.userId])

\* DELETE /api/transactions/{id}
Removed(list, id) == SelectSeq(list, LAMBDA e : e.id # id)

-----------------------------------------------------------------------------
(* Operations in flight *)

NoPost == [description |-> <<>>, amount |-> 0, type |-> "none", userId |-> "none"]

\* An operation suspended at an await: kind is the function that started it
\* ("mount" for the effect's fetchTransactions), stage the request it awaits,
\* phase whether the store has answered, data the answer to a List, post the
\* body of a POST, target the id of a DELETE (of a POST: the id the store
\* assigned), before the length of the store's list when it took the POST,
\* lists the number of List requests the operation has issued.
Task(id, kind, stage, post, target) ==
  [id |-> id, kind |-> kind, stage |-> stage, phase |-> "sent", data |-> <<>>,
   post |-> post, target |-> target, before |-> 0,
   lists |-> IF stage = "list" THEN 1 ELSE 0]

\* what a step did: the action, the operation it belongs to, the request that
\* settled, how it failed, the body of the non-2xx response, the message of
\* the error caught, the List requests the operation issued, and whether the
\* operation returned
Label(act, t, fail, body, emsg, returned) ==
  [act |-> act, id |-> t.id, kind |-> t.kind, stage |-> t.stage, fail |-> fail,
   body |-> body, emsg |-> emsg, lists |-> t.lists, returned |-> returned]

NoTask == Task(0, "none", "none", NoPost, 0)

Step(act) == Label(act, NoTask, "none", NoBody, <<>>, FALSE)

NoAdd == [id |-> 0, before |-> 0, post |-> NoPost]

Ids(list) == { list[i].id : i \in 1..Len(list) }

-----------------------------------------------------------------------------
(* Numbers (IEEE 754 binary64, round to nearest, ties to even)              *)
(*                                                                          *)
(* A natural number is the sequence of its binary digits, lowest first,     *)
(* without leading zeros.  A Number is a sign and a magnitude in units of   *)
(* 2^-59: every binary64 value of at least 0.01, and every sum and          *)
(* difference of such values, is a whole number of these units.             *)

\* the binary digits of a Number's significand
Precision == 53

\* the magnitude unit is 2^-FracBits
FracBits == 59

\* the digits of a small number
SmallBits == 31

\* the highest non-zero digit of b
Top(b) ==
  CHOOSE i \in 0..Len(b) :
    /\ i = 0 \/ b[i] = 1
    /\ \A k \in (i + 1)..Len(b) : b[k] = 0

Normal(b) == SubSeq(b, 1, Top(b))

Bits(n) == Normal([i \in 1..SmallBits |-> (n \div 2^(i - 1)) % 2])

RECURSIVE Natural(_)
Natural(b) == IF b = <<>> THEN 0 ELSE Head(b) + 2 * Natural(Tail(b))

Zeros(k) == [i \in 1..k |-> 0]

ShiftLeft(b, k) == IF b = <<>> THEN <<>> ELSE Zeros(k) \o b

ShiftRight(b, k) == SubSeq(b, k + 1, Len(b))

Digit(b, i) == IF i <= Len(b) THEN b[i] ELSE 0

\* Arithmetic goes by groups of GroupBits digits.
GroupBits == 20

Base == 2^GroupBits

Groups(a) == (Len(a) + GroupBits - 1) \div GroupBits

Group(a, j) ==
  Natural(SubSeq([i \in 1..GroupBits |-> Digit(a, GroupBits * (j - 1) + i)], 1, GroupBits))

\* the first m groups of a
Grouped(a, m) == SubSeq([j \in 1..m |-> Group(a, j)], 1, m)

\* the number whose groups are q
Ungrouped(q) ==
  Normal([i \in 1..(GroupBits * Len(q)) |->
            (q[((i - 1) \div GroupBits) + 1] \div 2^((i - 1) % GroupBits)) % 2])

\* the carry out of group j of x + y
RECURSIVE Carry(_, _, _)
Carry(x, y, j) == IF j = 0 THEN 0 ELSE (x[j] + y[j] + Carry(x, y, j - 1)) \div Base

BigAdd(a, b) ==
  LET m == (IF Groups(a) >= Groups(b) THEN Groups(a) ELSE Groups(b)) + 1
      x == Grouped(a, m)
      y == Grouped(b, m)
  IN Ungrouped(SubSeq([j \in 1..m |-> (x[j] + y[j] + Carry(x, y, j - 1)) % Base], 1, m))

\* the borrow out of group j of x - y
RECURSIVE Borrow(_, _, _)
Borrow(x, y, j) ==
  IF j = 0 THEN 0 ELSE IF x[j] - y[j] - Borrow(x, y, j - 1) < 0 THEN 1 ELSE 0

\* a - b, for a >= b
BigSub(a, b) ==
  LET m == Groups(a)
      x == Grouped(a, m)
      y == Grouped(b, m)
  IN Ungrouped(SubSeq([j \in 1..m |-> (x[j] - y[j] - Borrow(x, y, j - 1) + Base) % Base],
                      1, m))

BigLess(a, b) ==
  \/ Len(a) < Len(b)
  \/ /\ Len(a) = Len(b)
     /\ \E i \in 1..Len(a) :
          /\ a[i] < b[i]
          /\ \A k \in (i + 1)..Len(a) : a[k] = b[k]

RECURSIVE BigTimes(_, _)
BigTimes(a, k) ==
  IF k = 0 THEN <<>>
  ELSE BigAdd(IF k % 2 = 1 THEN a ELSE <<>>, ShiftLeft(BigTimes(a, k \div 2), 1))

\* the remainder of the groups j.. of x, divided by the small number d
RECURSIVE RemFrom(_, _, _)
RemFrom(x, d, j) ==
  IF j > Len(x) THEN 0 ELSE (Base * RemFrom(x, d, j + 1) + x[j]) % d

\* the quotient of a by the small number d
BigDiv(a, d) ==
  LET x == Grouped(a, Groups(a))
  IN Ungrouped(SubSeq([j \in 1..Len(x) |-> (Base * RemFrom(x, d, j + 1) + x[j]) \div d],
                      1, Len(x)))

BigRem(a, d) == RemFrom(Grouped(a, Groups(a)), d, 1)

\* The magnitude b, followed by a non-zero rest when sticky, rounded to
\* Precision digits: to nearest, ties to even.
RoundBits(b, sticky) ==
  LET k == Len(b) - Precision
      kept == ShiftRight(b, k)
      half == b[k] = 1
      rest == sticky \/ \E i \in 1..(k - 1) : b[i] = 1
      up == half /\ (rest \/ kept[1] = 1)
  IN IF k <= 0 THEN b
     ELSE ShiftLeft(IF up THEN BigAdd(kept, <<1>>) ELSE kept, k)

Zero == [neg |-> FALSE, mag |-> <<>>]

\* The Number nearest to h hundredths: the value of a decimal literal, as
\* parseFloat and JSON.parse give it.  Two more digits than the unit are
\* computed for the rounding.
GuardBits == 2

Hundredths(h) ==
  LET scaled == ShiftLeft(Bits(h), FracBits + GuardBits)
  IN [neg |-> FALSE,
      mag |-> ShiftRight(RoundBits(BigDiv(scaled, 100), BigRem(scaled, 100) # 0),
                         GuardBits)]

\* x + y (the + of App.jsx:146, 150)
Plus(x, y) ==
  IF x.neg = y.neg THEN [neg |-> x.neg, mag |-> RoundBits(BigAdd(x.mag, y.mag), FALSE)]
  ELSE IF x.mag = y.mag THEN Zero
  ELSE IF BigLess(x.mag, y.mag)
       THEN [neg |-> y.neg, mag |-> RoundBits(BigSub(y.mag, x.mag), FALSE)]
       ELSE [neg |-> x.neg, mag |-> RoundBits(BigSub(x.mag, y.mag), FALSE)]

\* x - y (App.jsx:152)
Minus(x, y) == Plus(x, [neg |-> ~y.neg, mag |-> y.mag])

\* Number.prototype.toFixed(2): the sign, and the whole number n of
\* hundredths for which n / 100 is nearest to the magnitude, the larger one
\* of two; a negative Number keeps its sign when n is 0.
ToFixed2(x) ==
  [neg |-> x.neg,
   cents |-> Natural(ShiftRight(BigAdd(BigTimes(x.mag, 200), ShiftLeft(<<1>>, FracBits)),
                                FracBits + 1))]

-----------------------------------------------------------------------------
(* Aggregates (App.jsx:143-152) *)

\* transactions.filter(t => t.type === ty)
Filter(list, ty) == SelectSeq(list, LAMBDA t : t.type = ty)

\* .reduce((sum, t) => sum + parseFloat(t.amount), 0)
RECURSIVE Reduce(_)
Reduce(list) ==
  IF list = <<>> THEN Zero
  ELSE Plus(Reduce(SubSeq(list, 1, Len(list) - 1)), Hundredths(list[Len(list)].amount))

totalIncome == Reduce(Filter(transactions, "income"))

totalExpenses == Reduce(Filter(transactions, "expense"))

balance == Minus(totalIncome, totalExpenses)

-----------------------------------------------------------------------------
(* The identifier (App.jsx:13-23) *)

\* A string value: a text, or the template `user_${t}_${r}`.
Str(text) == [text |-> text, t |-> 0, r |-> ""]

\* what localStorage.getItem gives for a missing entry
Null == [text |-> "null", t |-> 0 - 1, r |-> ""]

\* `user_${Date.now()}_${Math.random().toString(36).substring(2, 9)}`
NewUserId(t, r) == [text |-> "user_", t |-> t, r |-> r]

\* the results of Math.random().toString(36).substring(2, 9)
Randoms == { "k3f9x2a", "p0q8z1m", "w7c4d5e" }

\* what the entry can hold when the page loads: nothing, the empty string,
\* a text something else wrote, an identifier of an earlier session
StoredValues == { Null, Str(""), Str("abc"), Str(UserId) }

\* if (storedUserId): null and '' are falsy
Truthy(v) == v # Null /\ v # Str("")

\* the initializer as it were if it did not store the identifier it makes
InitializerNoStore(store, t, r) ==
  IF Truthy(store) THEN [id |-> store, store |-> store]
  ELSE [id |-> NewUserId(t, r), store |-> store]

\* The initializer of userId: the value it returns and the entry it leaves.
Initializer(store, t, r) ==
  IF Truthy(store) THEN [id |-> store, store |-> store]
  ELSE [id |-> NewUserId(t, r), store |-> NewUserId(t, r)]

\* The component is constructed (a page load).  Under React.StrictMode a
\* development build calls the initializer twice and keeps one result.
Construct ==
  /\ inits < MaxInits
  /\ \E n \in {1, 2} : \E r1 \in Randoms : \E r2 \in Randoms :
       LET first == Initializer(storage, now, r1)
           second == Initializer(first.store, now, r2)
       IN \/ n = 1 /\ userId' = first.id /\ storage' = first.store
          \/ n = 2 /\ userId' \in {first.id, second.id} /\ storage' = second.store
  /\ inits' = inits + 1
  /\ UNCHANGED now
  /\ UNCHANGED <<description, amount, type, transactions, loading, message,
                 showMessage, mounted, tasks, server, nextId, clicks, edits, added,
                 deleted, last>>

\* time passes
Tick ==
  /\ now < MaxClock
  /\ now' = now + 1
  /\ UNCHANGED <<storage, userId, inits>>
  /\ UNCHANGED <<description, amount, type, transactions, loading, message,
                 showMessage, mounted, tasks, server, nextId, clicks, edits, added,
                 deleted, last>>

-----------------------------------------------------------------------------
(* Initial state: the component constructed, before its effects run *)

AppInit ==
  /\ description = <<>>
  /\ amount = <<>>
  /\ type = "expense"
  /\ transactions = <<>>
  /\ loading = TRUE
  /\ message = <<>>
  /\ showMessage = FALSE
  /\ mounted = FALSE
  /\ tasks = {}
  /\ \E n \in 0..MaxStored : server = StoredList(n) /\ nextId = n + 1
  /\ clicks = 0
  /\ edits = 0
  /\ added = NoAdd
  /\ deleted = {}
  /\ last = Step("Other")

\* a returning user: the entry holds the identifier of an earlier session
Init ==
  /\ AppInit
  /\ storage = Str(UserId)
  /\ userId = Initializer(storage, 0, "").id
  /\ now = 0
  /\ inits = 1

-----------------------------------------------------------------------------
(* Mount: useEffect(() => { if (userId) fetchTransactions() }, [userId]).   *)
(* Under React.StrictMode (main.jsx:7) a development build runs the effect  *)
(* twice in the commit that mounts the component, a production build once.  *)

EffectRuns == {1, 2}

\* fetchTransactions up to its first await (App.jsx:30-35)
Mount ==
  /\ ~mounted
  /\ Truthy(userId)
  /\ \E n \in EffectRuns :
       tasks' = tasks \cup { Task(i, "mount", "list", NoPost, 0) : i \in 1..n }
  /\ mounted' = TRUE
  /\ loading' = TRUE
  /\ last' = Step("Other")
  /\ UNCHANGED idVars
  /\ UNCHANGED <<description, amount, type, transactions, message, showMessage,
                 server, nextId, clicks, edits, added, deleted>>

-----------------------------------------------------------------------------
(* The input fields and the notice *)

SetDescription(v) ==
  /\ mounted /\ edits < MaxEdits /\ v # description
  /\ description' = v
  /\ edits' = edits + 1
  /\ last' = Step("Other")
  /\ UNCHANGED idVars
  /\ UNCHANGED <<amount, type, transactions, loading, message, showMessage, mounted,
                 tasks, server, nextId, clicks, added, deleted>>

SetAmount(v) ==
  /\ mounted /\ edits < MaxEdits /\ v # amount
  /\ amount' = v
  /\ edits' = edits + 1
  /\ last' = Step("Other")
  /\ UNCHANGED idVars
  /\ UNCHANGED <<description, type, transactions, loading, message, showMessage,
                 mounted, tasks, server, nextId, clicks, added, deleted>>

SetType(v) ==
  /\ mounted /\ edits < MaxEdits /\ v # type
  /\ type' = v
  /\ edits' = edits + 1
  /\ last' = Step("Other")
  /\ UNCHANGED idVars
  /\ UNCHANGED <<description, amount, transactions, loading, message, showMessage,
                 mounted, tasks, server, nextId, clicks, added, deleted>>

\* MessageBox onClose (App.jsx:181)
CloseMessage ==
  /\ mounted /\ showMessage
  /\ showMessage' = FALSE
  /\ last' = Step("Other")
  /\ UNCHANGED idVars
  /\ UNCHANGED <<description, amount, type, transactions, loading, message, mounted,
                 tasks, server, nextId, clicks, edits, added, deleted>>

-----------------------------------------------------------------------------
(* handleAddTransaction up to its first await (App.jsx:65-86) *)

\* disabled={loading} on the Add button (App.jsx:236) and on each Delete
\* button (App.jsx:297)
ControlsDisabled == loading

\* !description.trim() || !amount (App.jsx:66)
MissingInput(d, a) == Trim(d) = <<>> \/ a = <<>>

\* isNaN(numAmount) || numAmount <= 0 (App.jsx:71-72)
BadAmount(a) == ParseFloat(a).nan \/ ParseFloat(a).v <= 0

\* the body of the POST (App.jsx:85)
PostBody(d, a, ty) ==
  [description |-> Trim(d), amount |-> ParseFloat(a).v, type |-> ty, userId |-> userId.text]

RejectAdd(m) ==
  /\ message' = m
  /\ showMessage' = TRUE
  /\ last' = Step("RejectAdd")
  /\ UNCHANGED idVars
  /\ UNCHANGED <<description, amount, type, transactions, loading, mounted, tasks,
                 server, nextId, clicks, edits, added, deleted>>

\* the accepted Add as it were if it showed the new entry at once
SendAddOptimistic ==
  /\ clicks < MaxClicks
  /\ loading' = TRUE
  /\ clicks' = clicks + 1
  /\ LET t == Task(clicks + 3, "add", "mutate", PostBody(description, amount, type), 0)
     IN /\ tasks' = tasks \cup {t}
        /\ transactions' = Created(transactions, 0, t.post)
        /\ last' = Label("SendAdd", t, "none", NoBody, <<>>, FALSE)
  /\ added' = NoAdd
  /\ UNCHANGED idVars
  /\ UNCHANGED <<description, amount, type, message, showMessage, mounted, server,
                 nextId, edits, deleted>>

SendAdd ==
  /\ clicks < MaxClicks
  /\ loading' = TRUE
  /\ clicks' = clicks + 1
  /\ LET t == Task(clicks + 3, "add", "mutate", PostBody(description, amount, type), 0)
     IN /\ tasks' = tasks \cup {t}
        /\ last' = Label("SendAdd", t, "none", NoBody, <<>>, FALSE)
  /\ added' = NoAdd
  /\ UNCHANGED idVars
  /\ UNCHANGED <<description, amount, type, transactions, message, showMessage,
                 mounted, server, nextId, edits, deleted>>

ClickAdd ==
  /\ mounted /\ ~ControlsDisabled
  /\ IF MissingInput(description, amount) THEN RejectAdd(EnterBoth)
     ELSE IF BadAmount(amount) THEN RejectAdd(EnterPositive)
     ELSE SendAdd

(* handleDeleteTransaction up to its first await (App.jsx:114-119) *)
ClickDelete(id) ==
  /\ mounted /\ ~ControlsDisabled
  /\ id \in Ids(transactions)
  /\ clicks < MaxClicks
  /\ loading' = TRUE
  /\ clicks' = clicks + 1
  /\ LET t == Task(clicks + 3, "delete", "mutate", NoPost, id)
     IN /\ tasks' = tasks \cup {t}
        /\ last' = Label("ClickDelete", t, "none", NoBody, <<>>, FALSE)
  /\ added' = NoAdd
  /\ UNCHANGED idVars
  /\ UNCHANGED <<description, amount, type, transactions, message, showMessage,
                 mounted, server, nextId, edits, deleted>>

-----------------------------------------------------------------------------
(* The remote store takes a request and answers 2xx *)

ServerHandle(t) ==
  /\ t.phase = "sent"
  /\ \/ /\ t.stage = "list"
        /\ tasks' = (tasks \ {t}) \cup {[t EXCEPT !.phase = "replied", !.data = server]}
        /\ UNCHANGED <<server, nextId>>
     \/ /\ t.stage = "mutate" /\ t.kind = "add"
        /\ server' = Created(server, nextId, t.post)
        /\ nextId' = nextId + 1
        /\ tasks' = (tasks \ {t}) \cup
                      {[t EXCEPT !.phase = "replied", !.target = nextId,
                                 !.before = Len(server)]}
     \/ /\ t.stage = "mutate" /\ t.kind = "delete"
        /\ server' = Removed(server, t.target)
        /\ tasks' = (tasks \ {t}) \cup {[t EXCEPT !.phase = "replied"]}
        /\ UNCHANGED nextId
  /\ last' = Step("Other")
  /\ UNCHANGED idVars
  /\ UNCHANGED <<description, amount, type, transactions, loading, message,
                 showMessage, mounted, clicks, edits, added, deleted>>

-----------------------------------------------------------------------------
(* fetchTransactions from its await to its end (App.jsx:35-54), and, when   *)
(* handleAddTransaction or handleDeleteTransaction awaits it, their code    *)
(* after the await (App.jsx:94-99, 108-110; 127-129, 138-140).  The caller  *)
(* resumes in a microtask of the same turn, so no other event comes         *)
(* between.  ok: the response was 2xx; m: the message of the error caught.  *)

\* the pending flag as the finally blocks were they missing
FinallyLoadingStuck == loading

\* the value the finally blocks give the pending flag (App.jsx:53, 109, 139)
FinallyLoading == FALSE

\* what fetchTransactions leaves in <<transactions, message, showMessage>>
ListResult(t, ok, m) ==
  IF ok THEN <<t.data, message, showMessage>>
  ELSE <<<<>>, ListUserMessage(m), TRUE>>

\* the notice after the operation that awaited fetchTransactions has returned
NoticeAfterRefresh(t, ok, m) ==
  IF t.kind = "add" THEN <<AddedOk, TRUE>>
  ELSE IF t.kind = "delete" THEN <<DeletedOk, TRUE>>
  ELSE <<ListResult(t, ok, m)[2], ListResult(t, ok, m)[3]>>

\* the input fields after the operation has returned
FieldsAfterRefresh(t) ==
  IF t.kind = "add" THEN <<<<>>, <<>>, "expense">>
  ELSE <<description, amount, type>>

ListSettled(t, ok, fail, body, m) ==
  /\ t.stage = "list"
  /\ transactions' = ListResult(t, ok, m)[1]
  /\ message' = NoticeAfterRefresh(t, ok, m)[1]
  /\ showMessage' = NoticeAfterRefresh(t, ok, m)[2]
  /\ description' = FieldsAfterRefresh(t)[1]
  /\ amount' = FieldsAfterRefresh(t)[2]
  /\ type' = FieldsAfterRefresh(t)[3]
  /\ loading' = FinallyLoading
  /\ tasks' = tasks \ {t}
  /\ added' = IF t.kind = "add" /\ ok
              THEN [id |-> t.target, before |-> t.before, post |-> t.post]
              ELSE added
  /\ deleted' = IF t.kind = "delete" /\ ok THEN deleted \cup {t.target} ELSE deleted
  /\ last' = Label("ListSettled", t, fail, body, m, TRUE)
  /\ UNCHANGED idVars
  /\ UNCHANGED <<mounted, server, nextId, clicks, edits>>

-----------------------------------------------------------------------------
(* handleAddTransaction and handleDeleteTransaction from the await of their *)
(* request: on a 2xx response they call fetchTransactions, which runs to    *)
(* its await (App.jsx:88-94, 30-35; 121-127); on an error they run their    *)
(* catch and finally blocks (App.jsx:100-110; 130-140).                     *)

\* the 2xx branch as it were if it confirmed before refreshing the list
MutateOkEager(t) ==
  /\ t.stage = "mutate" /\ t.phase = "replied"
  /\ loading' = TRUE
  /\ message' = IF t.kind = "add" THEN AddedOk ELSE DeletedOk
  /\ showMessage' = TRUE
  /\ LET u == [t EXCEPT !.stage = "list", !.phase = "sent", !.lists = t.lists + 1]
     IN /\ tasks' = (tasks \ {t}) \cup {u}
        /\ last' = Label("MutateOk", u, "none", NoBody, <<>>, FALSE)
  /\ UNCHANGED idVars
  /\ UNCHANGED <<description, amount, type, transactions, mounted, server, nextId,
                 clicks, edits, added, deleted>>

MutateOk(t) ==
  /\ t.stage = "mutate" /\ t.phase = "replied"
  /\ loading' = TRUE
  /\ LET u == [t EXCEPT !.stage = "list", !.phase = "sent", !.lists = t.lists + 1]
     IN /\ tasks' = (tasks \ {t}) \cup {u}
        /\ last' = Label("MutateOk", u, "none", NoBody, <<>>, FALSE)
  /\ UNCHANGED idVars
  /\ UNCHANGED <<description, amount, type, transactions, message, showMessage,
                 mounted, server, nextId, clicks, edits, added, deleted>>

\* the error branch as it were if it sent the failed request again
MutateFailedRetry(t, fail, body, m) ==
  /\ t.stage = "mutate" /\ t.phase = "sent"
  /\ loading' = TRUE
  /\ tasks' = tasks
  /\ last' = Label("MutateFailed", t, fail, body, m, FALSE)
  /\ UNCHANGED idVars
  /\ UNCHANGED <<description, amount, type, transactions, message, showMessage,
                 mounted, server, nextId, clicks, edits, added, deleted>>

\* the error branch as it were if it reset the input fields
MutateFailedReset(t, fail, body, m) ==
  /\ t.stage = "mutate" /\ t.phase = "sent"
  /\ message' = IF t.kind = "add" THEN AddUserMessage(m) ELSE DeleteUserMessage(m)
  /\ showMessage' = TRUE
  /\ loading' = FinallyLoading
  /\ tasks' = tasks \ {t}
  /\ description' = <<>>
  /\ amount' = <<>>
  /\ type' = "expense"
  /\ last' = Label("MutateFailed", t, fail, body, m, TRUE)
  /\ UNCHANGED idVars
  /\ UNCHANGED <<transactions, mounted, server, nextId, clicks, edits, added, deleted>>

MutateFailed(t, fail, body, m) ==
  /\ t.stage = "mutate" /\ t.phase = "sent"
  /\ message' = IF t.kind = "add" THEN AddUserMessage(m) ELSE DeleteUserMessage(m)
  /\ showMessage' = TRUE
  /\ loading' = FinallyLoading
  /\ tasks' = tasks \ {t}
  /\ last' = Label("MutateFailed", t, fail, body, m, TRUE)
  /\ UNCHANGED idVars
  /\ UNCHANGED <<description, amount, type, transactions, mounted, server, nextId,
                 clicks, edits, added, deleted>>

-----------------------------------------------------------------------------
(* The ways a request settles *)

\* a 2xx response arrives
ReceiveOk(t) ==
  /\ t.phase = "replied"
  /\ \/ ListSettled(t, TRUE, "none", NoBody, <<>>)
     \/ MutateOk(t)

\* the store answers non-2xx, with body b, and changes nothing
ReceiveHttpError(t, b) ==
  /\ t.phase = "sent"
  /\ \/ ListSettled(t, FALSE, "http", b, ListHttpErrorMessage(b))
     \/ MutateFailed(t, "http", b, MutateHttpErrorMessage(b))

\* the request does not reach the store: fetch rejects with a TypeError
ReceiveTransportError(t, m) ==
  /\ t.phase = "sent"
  /\ \/ ListSettled(t, FALSE, "transport", NoBody, m)
     \/ MutateFailed(t, "transport", NoBody, m)

-----------------------------------------------------------------------------

Settle ==
  \E t \in tasks :
    \/ ServerHandle(t)
    \/ ReceiveOk(t)
    \/ \E b \in ErrorBodies : ReceiveHttpError(t, b)
    \/ \E m \in TransportMessages : ReceiveTransportError(t, m)

Next ==
  \/ Mount
  \/ \E v \in Descriptions : SetDescription(v)
  \/ \E v \in Amounts : SetAmount(v)
  \/ \E v \in Types : SetType(v)
  \/ CloseMessage
  \/ ClickAdd
  \/ \E id \in Ids(transactions) : ClickDelete(id)
  \/ Settle

Spec == Init /\ [][Next]_vars

\* every request is answered or fails, and the effects of a mounted
\* component run
FairSpec == Spec /\ WF_vars(Mount) /\ WF_vars(Settle)

-----------------------------------------------------------------------------
(* The page after the mount effect's List has settled with the store's list *)
(* and the user has filled the form.                                        *)

FilledInit ==
  /\ description = <<" ", "r", " ">>
  /\ amount = <<"2", ".", "5">>
  /\ type = "expense"
  /\ \E n \in 0..MaxStored : server = StoredList(n) /\ nextId = n + 1
  /\ transactions = server
  /\ loading = FALSE
  /\ message = <<>>
  /\ showMessage = FALSE
  /\ mounted = TRUE
  /\ tasks = {}
  /\ clicks = 0
  /\ edits = 0
  /\ added = NoAdd
  /\ deleted = {}
  /\ last = Step("Other")
  /\ storage = Str(UserId)
  /\ userId = Initializer(storage, 0, "").id
  /\ now = 0
  /\ inits = 1

FilledNext ==
  \/ \E v \in Descriptions : SetDescription(v)
  \/ \E v \in Amounts : SetAmount(v)
  \/ \E v \in Types : SetType(v)
  \/ CloseMessage
  \/ ClickAdd
  \/ \E id \in Ids(transactions) : ClickDelete(id)
  \/ Settle

FilledSpec == FilledInit /\ [][FilledNext]_vars

-----------------------------------------------------------------------------
(* The identifier over repeated page loads in one storage scope: the entry  *)
(* holds any of StoredValues before the first load.                         *)

IdInit ==
  /\ AppInit
  /\ storage \in StoredValues
  /\ userId = Null
  /\ now = 0
  /\ inits = 0

IdNext == Construct \/ Tick

IdSpec == IdInit /\ [][IdNext]_vars

-----------------------------------------------------------------------------
(* Properties *)

\* m occurs in s as a run of consecutive tokens
Carries(s, m) ==
  \E i \in 1..(Len(s) - Len(m) + 1) : SubSeq(s, i, i + Len(m) - 1) = m

Mutating == { t \in tasks : t.stage = "mutate" }

Distinguished == { CouldNotConnect, CouldNotConnectList }

Confirmations == { AddedOk, DeletedOk }

\* C1: at most one mutating request (POST or DELETE) is outstanding in every
\* reachable state, the double mount effect of React.StrictMode included.
C1_OneMutatingRequest == Cardinality(Mutating) <= 1

\* C10: whenever a request (List, POST or DELETE) is outstanding the pending
\* flag is true, so that the Add and Delete controls are disabled; the flag is
\* false only when no request is outstanding.
C10_PendingWhileOutstanding == tasks # {} => loading /\ ControlsDisabled

\* C3: when a request of an Add or Delete (the POST or DELETE, or the refresh
\* List after it) has failed, then as the operation returns the visible
\* notice carries the message of that failure and is no success confirmation.
C3_FailureReported ==
  (last.returned /\ last.kind \in {"add", "delete"} /\ last.fail # "none")
    => /\ showMessage
       /\ message \notin Confirmations
       /\ Carries(message, last.emsg) \/ message \in Distinguished

\* C7: when a List request gets a non-2xx response the notice is shown, its
\* message contains the text of the response body, or the generic status
\* message when the body is empty, and the in-memory list is empty.
C7_ListErrorShowsBody ==
  (last.act = "ListSettled" /\ last.fail = "http")
    => /\ showMessage
       /\ transactions = <<>>
       /\ IF BodyText(last.body) = <<>>
          THEN Carries(message, <<"HTTP error! Status: ", ErrorStatus>>)
          ELSE Carries(message, BodyText(last.body))

\* C8: for List, Add and Delete the distinguished "Could not connect to the
\* backend server" notice is shown if and only if the request failed at the
\* transport level.
C8_DistinguishedIffTransport ==
  (last.returned /\ last.fail # "none")
    => (showMessage /\ message \in Distinguished <=> last.fail = "transport")

\* the entries of list with the given id
WithId(list, id) == { i \in 1..Len(list) : list[i].id = id }

\* C4: once an Add whose POST and refresh List both succeeded has returned,
\* the in-memory list equals the store's list for this userId and has exactly
\* one entry more than the list the POST was added to, that entry carrying the
\* description, amount, type and userId submitted.
C4_AddShown ==
  added # NoAdd
    => /\ transactions = server
       /\ Len(transactions) = added.before + 1
       /\ \E i \in 1..Len(transactions) :
            /\ WithId(transactions, added.id) = {i}
            /\ transactions[i].description = added.post.description
            /\ transactions[i].amount = added.post.amount
            /\ transactions[i].type = added.post.type
            /\ transactions[i].userId = added.post.userId

\* C5: after a Delete whose DELETE and refresh List both succeeded, no state
\* shows an entry with the deleted id.
C5_DeletedStaysGone == Ids(transactions) \cap deleted = {}

\* the inputs the claim about validation names
BlankDescriptions == { <<>>, <<" ">> }
NotPositiveAmounts == { <<"a", "b", "c">>, <<"-", "5">>, <<"0">> }

AddClicked == last'.act \in {"RejectAdd", "SendAdd"}

\* C2: an Add with a description that is blank after trimming, or an amount
\* that is empty, non-numeric or not greater than 0, sends no request and
\* leaves the list, the pending flag and the input fields as they were; it
\* shows "Please enter both description and amount." when the description is
\* blank or the amount empty, else "Please enter a valid positive amount.".
C2_RejectedLocally ==
  [][ (AddClicked /\ (description \in BlankDescriptions \/ amount \in NotPositiveAmounts
                      \/ amount = <<>>))
        => /\ tasks' = tasks /\ server' = server
           /\ UNCHANGED <<transactions, loading, description, amount, type>>
           /\ showMessage'
           /\ message' = IF description \in BlankDescriptions \/ amount = <<>>
                         THEN EnterBoth ELSE EnterPositive ]_vars

C2_Witness ==
  /\ last.act = "RejectAdd"
  /\ amount = <<"-", "5">> /\ description = <<" ", "r", " ">>
  /\ message = EnterPositive /\ showMessage
  /\ tasks = {} /\ ~loading

\* the steps of an Add that has not returned yet
AddStep == last'.kind = "add" /\ ~last'.returned

\* C6: when the POST of an Add succeeds exactly one List request is issued;
\* the Add resets the input fields and sets "Transaction added successfully!"
\* only as it returns, after that List has completed; its confirmation is
\* never visible while its refresh List is outstanding.
C6_ConfirmAfterRefresh ==
  /\ [](\A t \in tasks :
          t.kind = "add"
            => t.lists = IF t.stage = "list" THEN 1 ELSE 0)
  /\ [][ /\ AddStep => UNCHANGED <<description, amount, type, message, showMessage>>
         /\ (AddStep /\ last'.act = "MutateOk")
              => \E u \in tasks' :
                   /\ u.id = last'.id /\ u.stage = "list" /\ u.phase = "sent"
                   /\ u.lists = 1
         /\ (last'.kind = "add" /\ last'.returned /\ last'.stage = "list")
              => /\ last'.lists = 1
                 /\ \A u \in tasks' : u.id # last'.id
                 /\ description' = <<>> /\ amount' = <<>> /\ type' = "expense"
                 /\ message' = AddedOk /\ showMessage' ]_vars

C6_Witness ==
  /\ last.act = "ListSettled" /\ last.kind = "add" /\ last.fail = "none"
  /\ last.lists = 1
  /\ message = AddedOk /\ showMessage
  /\ description = <<>> /\ amount = <<>>
  /\ added # NoAdd

\* C9: provided every outstanding request completes, the pending flag
\* becomes false again after every List, Add and Delete, whether the requests
\* succeed or fail.
C9_ReturnsToIdle == loading ~> ~loading

C9_Witness ==
  /\ last.act = "MutateFailed" /\ last.fail = "transport"
  /\ ~loading /\ ~ControlsDisabled /\ tasks = {}

Constructed == inits' = inits + 1

Generated(v) == \E r \in Randoms : v = NewUserId(now, r)

\* C11: on initialization a present entry is returned and storage is not
\* written, an absent one makes a new identifier that is stored and returned;
\* every initialization after the first returns the same identifier and
\* leaves storage unchanged, for every stored value.
C11_PresentIsReused ==
  [][ Constructed
        => /\ IF storage # Null
              THEN userId' = storage /\ storage' = storage
              ELSE Generated(userId') /\ storage' = userId'
           /\ inits >= 1 => userId' = userId /\ storage' = storage ]_vars

\* C11 as amended: the same for an entry that is present and not the empty
\* string; an entry holding the empty string is treated as absent.
C11_NonEmptyIsReused ==
  [][ Constructed
        => /\ IF storage \notin {Null, Str("")}
              THEN userId' = storage /\ storage' = storage
              ELSE Generated(userId') /\ storage' = userId'
           /\ inits >= 1 => userId' = userId /\ storage' = storage ]_vars

C11_Witness ==
  /\ inits >= 2
  /\ userId = storage /\ userId.text = "user_"
  /\ now > userId.t


\* the requests awaited: the operation and the request's kind
Requests == { <<t.id, t.stage>> : t \in tasks }

Issued == Requests' \ Requests

\* the operation of the step
Subject(id) == { t \in tasks : t.id = id }

\* C13: no retries.  A request is issued only by the mount effect, by an
\* accepted Add or Delete click (exactly one, the mutating request) and by
\* the 2xx response to a mutating request (exactly one List, the operation's
\* only one); a step in which a request fails issues none and ends the
\* operation.
C13_NoRetries ==
  [][ /\ Issued # {} =>
           \/ ~mounted /\ mounted' /\ \A q \in Issued : q[2] = "list"
           \/ /\ last'.act \in {"SendAdd", "ClickDelete"}
              /\ clicks' = clicks + 1
           \/ /\ last'.act = "MutateOk"
              /\ \E t \in Subject(last'.id) : t.stage = "mutate" /\ t.phase = "replied"
      /\ last'.act \in {"SendAdd", "ClickDelete"} =>
           /\ Issued = {<<last'.id, "mutate">>}
           /\ Subject(last'.id) = {}
      /\ last'.act = "MutateOk" =>
           /\ Issued = {<<last'.id, "list">>}
           /\ last'.lists = 1
      /\ last'.fail # "none" =>
           /\ Issued = {}
           /\ \A t \in tasks' : t.id # last'.id
    ]_vars

C13_Witness ==
  /\ last.act = "MutateFailed" /\ last.kind = "delete"
  /\ tasks = {}
  /\ server # <<>>

\* C14: no optimistic updates.  The step in which a List request completes
\* replaces the list by the response's contents (2xx) or by the empty list
\* (failure); every other step, the sending and the completion of a POST or
\* DELETE included, leaves the list as it is.
C14_ListOnlyFromResponses ==
  [][ IF last'.act = "ListSettled"
      THEN \E t \in Subject(last'.id) :
             /\ t.stage = "list"
             /\ transactions' = IF last'.fail = "none" THEN t.data ELSE <<>>
      ELSE transactions' = transactions
    ]_vars

C14_Witness ==
  /\ last.act = "ListSettled" /\ last.kind = "add" /\ last.fail # "none"
  /\ transactions = <<>>
  /\ server # <<>>

\* C15: the step in which the POST of an Add or the DELETE of a Delete fails
\* issues no request, ends the operation, and leaves the list and the three
\* input fields as they were; it sets the notice and clears the pending flag.
C15_FailureKeepsInputs ==
  [][ last'.act = "MutateFailed" =>
        /\ Issued = {}
        /\ tasks' = tasks \ Subject(last'.id)
        /\ UNCHANGED <<transactions, description, amount, type>>
        /\ UNCHANGED <<mounted, userId, storage>>
        /\ showMessage' /\ ~loading'
    ]_vars

C15_Witness ==
  /\ last.act = "MutateFailed" /\ last.kind = "add"
  /\ Trim(description) # <<>> /\ amount # <<>>
  /\ showMessage /\ ~loading

\* the body a POST sent now would carry
Typed ==
  [description |-> Trim(description), amount |-> ParseFloat(amount).v,
   type |-> type, userId |-> userId.text]

Carried(e) ==
  [description |-> e.description, amount |-> e.amount, type |-> e.type,
   userId |-> e.userId]

\* C16: the POST of an accepted Add carries the trimmed description, the
\* amount, the type and the userId the fields held at the click; no later
\* step changes what a pending Add carries, and the entry the store creates
\* holds exactly that; the step in which the Add returns after its POST
\* succeeded leaves the fields at their defaults, whatever they held.
C16_CarriesClickValues ==
  [][ /\ last'.act = "SendAdd" =>
           \E t \in tasks' \ tasks : t.id = last'.id /\ t.post = Typed
      /\ \A t \in tasks : \A u \in tasks' : u.id = t.id => u.post = t.post
      /\ server' # server /\ Len(server') > Len(server) =>
           \E t \in tasks :
             /\ t.kind = "add" /\ t.stage = "mutate" /\ t.phase = "sent"
             /\ Carried(server'[Len(server')]) = t.post
      /\ last'.kind = "add" /\ last'.stage = "list" /\ last'.returned =>
           description' = <<>> /\ amount' = <<>> /\ type' = "expense"
    ]_vars

\* the POST has succeeded and its List is answered while the fields hold
\* other values than the POST carried
C16_Witness ==
  \E t \in tasks :
    /\ t.kind = "add" /\ t.stage = "list" /\ t.phase = "replied"
    /\ \E i \in 1..Len(server) : server[i].id = t.target /\ Carried(server[i]) = t.post
    /\ Typed.description # t.post.description
    /\ Typed.type # t.post.type

-----------------------------------------------------------------------------
(* The totals of a list (App.jsx:143-152, 249-257) *)

MaxList == 3

\* the amounts of the listed entries, in hundredths
ListedAmounts == { 10, 20, 30, 4000, 10000 }

Listed(id, h, ty) ==
  [id |-> id, description |-> <<"o">>, amount |-> h, type |-> ty, userId |-> UserId]

\* setTransactions(data) with a list one entry longer than the last
Lists ==
  /\ Len(transactions) < MaxList
  /\ \E h \in ListedAmounts : \E ty \in Types :
       transactions' = Append(transactions, Listed(Len(transactions) + 1, h, ty))
  /\ UNCHANGED <<description, amount, type, loading, message, showMessage, mounted,
                 tasks, server, nextId, clicks, edits, added, deleted, last>>
  /\ UNCHANGED idVars

AggSpec == Init /\ [][Lists]_vars

RECURSIVE Sum(_)
Sum(list) == IF list = <<>> THEN 0 ELSE list[1].amount + Sum(Tail(list))

\* the sum of the values the listed amounts have as Numbers, no digit lost
RECURSIVE ExactSum(_)
ExactSum(list) ==
  IF list = <<>> THEN <<>> ELSE BigAdd(Hundredths(list[1].amount).mag, ExactSum(Tail(list)))

Income == Filter(transactions, "income")

Expenses == Filter(transactions, "expense")

\* the three values are the sums and the difference, as numbers
ExactValues ==
  /\ totalIncome = [neg |-> FALSE, mag |-> ExactSum(Income)]
  /\ totalExpenses = [neg |-> FALSE, mag |-> ExactSum(Expenses)]

\* the three values are the Numbers nearest to the decimal sums and difference
NearestValues ==
  /\ totalIncome = Hundredths(Sum(Income))
  /\ totalExpenses = Hundredths(Sum(Expenses))
  /\ balance = IF Sum(Income) >= Sum(Expenses)
               THEN Hundredths(Sum(Income) - Sum(Expenses))
               ELSE [neg |-> TRUE, mag |-> Hundredths(Sum(Expenses) - Sum(Income)).mag]

\* the three values are shown as the decimal sums and difference
ShownValues ==
  /\ ToFixed2(totalIncome) = [neg |-> FALSE, cents |-> Sum(Income)]
  /\ ToFixed2(totalExpenses) = [neg |-> FALSE, cents |-> Sum(Expenses)]
  /\ ToFixed2(balance) = IF Sum(Income) >= Sum(Expenses)
                         THEN [neg |-> FALSE, cents |-> Sum(Income) - Sum(Expenses)]
                         ELSE [neg |-> TRUE, cents |-> Sum(Expenses) - Sum(Income)]

\* C12: the income total is the sum of the amounts of the income entries, the
\* expense total the sum of the amounts of the expense entries, and the
\* balance the income total minus the expense total: as exact numbers, or as
\* the nearest Numbers, or at least as the figures shown.
C12_TotalsAreSums == ExactValues \/ NearestValues \/ ShownValues

====
